---- MODULE Spec2Model ----
(***************************************************************************)
(* Model of the langfuse-jumpstart example scripts.  One run executes one  *)
(* of the five scripts from its entry point to process exit.  Provider     *)
(* calls are the only nondeterminism: each returns a reply drawn from a    *)
(* small set or raises an exception carrying a message.  The tracing       *)
(* collaborator is modelled by the sequence of calls it receives.          *)
(*                                                                         *)
(* Strings are sequences of fragments (words, punctuation, whitespace);    *)
(* Python's `in` is the contiguous-subsequence test.  Fractions are        *)
(* integers in hundredths (0.7 is 70, 1.0 is 100).                         *)
(***************************************************************************)
EXTENDS Integers, Sequences, FiniteSets, TLC

VARIABLES
    script,       \* which script this run executes
    pc,           \* the next step of the script
    locals,       \* the live local variables, by name
    calls,        \* the provider calls issued so far, with how each ended
    events,       \* the calls the tracing collaborator has received, in order
    out,          \* what was printed, one tag per print
    exc,          \* the exception in flight, NoExc when there is none
    flushes,      \* how many times flush was invoked
    exit_status   \* the exit status of the process, -1 while it runs

vars == <<script, pc, locals, calls, events, out, exc, flushes, exit_status>>

\* ---------------------------------------------------------------- bounds
MaxReplyLen == 6
MaxTextLen == 3
MaxSentimentLen == 2
MaxTokens == 1
MaxBedrockLen == 2

\* ------------------------------------------------------- string helpers
Strings(alphabet, n) == UNION {[1..k -> alphabet] : k \in 0..n}

Whitespace == {"\n", " "}

\* x in s
Contains(needle, s) ==
    \E i \in 0..(Len(s) - Len(needle)) : SubSeq(s, i + 1, i + Len(needle)) = needle

RECURSIVE LStrip(_)
LStrip(s) == IF s /= <<>> /\ Head(s) \in Whitespace THEN LStrip(Tail(s)) ELSE s

RECURSIVE RStrip(_)
RStrip(s) ==
    IF s /= <<>> /\ s[Len(s)] \in Whitespace THEN RStrip(SubSeq(s, 1, Len(s) - 1)) ELSE s

\* s.strip()
Strip(s) == LStrip(RStrip(s))

\* s.split(sep): the pieces between separators, empty pieces kept
RECURSIVE SplitFrom(_, _, _, _)
SplitFrom(s, sep, i, cur) ==
    IF i > Len(s) THEN <<cur>>
    ELSE IF s[i] = sep THEN <<cur>> \o SplitFrom(s, sep, i + 1, <<>>)
    ELSE SplitFrom(s, sep, i + 1, Append(cur, s[i]))

Split(s, sep) == SplitFrom(s, sep, 1, <<>>)

LowerOf(w) ==
    CASE w = "Positive" -> "positive"
      [] w = "POSITIVE" -> "positive"
      [] w = "Negative" -> "negative"
      [] w = "NEGATIVE" -> "negative"
      [] OTHER -> w

\* s.lower()
Lower(s) == [i \in DOMAIN s |-> LowerOf(s[i])]

\* ------------------------------------------------------------ the runs
Scripts == {"quickstart", "anthropic", "bedrock", "openai", "langchain"}

ErrMsgs == {"timeout", "denied"}

NoExc == "none"

Record(ev) == Append(events, ev)

ScoreEvent(n, v) == [kind |-> "score", name |-> n, value |-> v]

TraceUpdate(n) == [kind |-> "update_trace", name |-> n, value |-> 0]

ObservationUpdate(n, v) == [kind |-> "update_observation", name |-> n, value |-> v]

FlushEvent == [kind |-> "flush", name |-> "flush", value |-> 0]

Put(k, v) == (k :> v) @@ locals

Has(k) == k \in DOMAIN locals

Call(fn, raised) == Append(calls, [fn |-> fn, raised |-> raised])

Printed(tag) == Append(out, tag)

Init ==
    /\ script \in Scripts
    /\ pc = "start"
    /\ locals = <<>>
    /\ calls = <<>>
    /\ events = <<>>
    /\ out = <<>>
    /\ exc = NoExc
    /\ flushes = 0
    /\ exit_status = -1

\* ============================================================== openai
\* process_content up to its first provider call
openai_process_content ==
    /\ script = "openai" /\ pc = "start"
    /\ events' = events \o <<TraceUpdate("user_id"), TraceUpdate("tags")>>
    /\ pc' = "extract_keywords"
    /\ UNCHANGED <<script, locals, calls, out, exc, flushes, exit_status>>

KeywordReplies == Strings({"kw", "\n"}, MaxReplyLen)

\* content.strip().split("\n") and k.strip() for each k
ParseKeywords(content) ==
    LET parts == Split(Strip(content), "\n")
    IN  [i \in DOMAIN parts |-> Strip(parts[i])]

\* faulty variant: more than 5 keywords asked for
KeywordQuality_MoreThan5(keywords) == IF Len(keywords) > 5 THEN 90 ELSE 50

KeywordQuality(keywords) == IF Len(keywords) >= 5 THEN 90 ELSE 50

\* faulty variant: the except clause returns an empty list instead of re-raising
openai_extract_keywords_swallow ==
    /\ script = "openai" /\ pc = "extract_keywords"
    /\ \/ \E content \in KeywordReplies :
            LET keywords == ParseKeywords(content)
            IN  /\ calls' = Call("extract_keywords", FALSE)
                /\ events' = Record(ScoreEvent("keyword_quality", KeywordQuality(keywords)))
                /\ locals' = ("response" :> content) @@ Put("keywords", keywords)
       \/ \E e \in ErrMsgs :
            /\ calls' = Call("extract_keywords", TRUE)
            /\ locals' = Put("keywords", <<>>)
            /\ events' = events
    /\ pc' = "generate_summary"
    /\ UNCHANGED <<script, out, exc, flushes, exit_status>>

\* extract_keywords: the except clause re-raises what the provider raised
openai_extract_keywords ==
    /\ script = "openai" /\ pc = "extract_keywords"
    /\ \/ \E content \in KeywordReplies :
            LET keywords == ParseKeywords(content)
            IN  /\ calls' = Call("extract_keywords", FALSE)
                /\ events' = Record(ScoreEvent("keyword_quality", KeywordQuality(keywords)))
                /\ locals' = ("response" :> content) @@ Put("keywords", keywords)
                /\ pc' = "generate_summary"
                /\ exc' = exc
       \/ \E e \in ErrMsgs :
            /\ calls' = Call("extract_keywords", TRUE)
            /\ exc' = e
            /\ pc' = "main_except"
            /\ UNCHANGED <<locals, events>>
    /\ UNCHANGED <<script, out, flushes, exit_status>>

SummaryReplies == {<<"sum", "\n">>}

OpenAIUsages ==
    {[prompt_tokens |-> p, completion_tokens |-> c, total_tokens |-> p + c] :
        p \in 0..MaxTokens, c \in 0..MaxTokens}

openai_generate_summary ==
    /\ script = "openai" /\ pc = "generate_summary"
    /\ \/ \E content \in SummaryReplies, usage \in OpenAIUsages :
            /\ calls' = Call("generate_summary", FALSE)
            /\ events' = Record([kind |-> "observation", name |-> "token_usage",
                                 value |-> usage])
            /\ locals' = ("response" :> content) @@ Put("summary", Strip(content))
            /\ pc' = "analyze_sentiment"
            /\ exc' = exc
       \/ \E e \in ErrMsgs :
            /\ calls' = Call("generate_summary", TRUE)
            /\ exc' = e
            /\ pc' = "main_except"
            /\ UNCHANGED <<locals, events>>
    /\ UNCHANGED <<script, out, flushes, exit_status>>

\* The reply of the sentiment model: a JSON document, or text json.loads rejects.
SentimentKeys == {"positive", "neutral", "negative"}

JsonNumbers == {0, 30, 70}

Obj(f) == [type |-> "object", fields |-> f]

JsonObjects == {Obj(f) : f \in UNION {[K -> JsonNumbers] : K \in SUBSET SentimentKeys}}

JsonOthers == {[type |-> "number", fields |-> <<>>], [type |-> "array", fields |-> <<>>]}

SentimentWords == {"positive", "Positive", "negative", "NEGATIVE", "the"}

SentimentReplies ==
    {[json |-> TRUE, doc |-> d, text |-> <<>>] : d \in JsonObjects \cup JsonOthers}
    \cup {[json |-> FALSE, doc |-> [type |-> "none", fields |-> <<>>], text |-> t] :
            t \in Strings(SentimentWords, MaxSentimentLen)}

\* faulty variant: the words looked for in the reply as written, without lower()
SentimentFallback_CaseSensitive(raw) ==
    LET content == Strip(raw)
        zero == [positive |-> 0, neutral |-> 0, negative |-> 0]
    IN  IF Contains(<<"positive">>, content)
            THEN Obj([zero EXCEPT !.positive = 70, !.neutral = 30])
        ELSE IF Contains(<<"negative">>, content)
            THEN Obj([zero EXCEPT !.negative = 70, !.neutral = 30])
        ELSE Obj([zero EXCEPT !.neutral = 100])

\* faulty variant: no distribution is built when parsing fails
SentimentFallback_None(raw) == [type |-> "none", fields |-> <<>>]

\* the except json.JSONDecodeError branch
SentimentFallback(raw) ==
    LET content == Strip(raw)
        zero == [positive |-> 0, neutral |-> 0, negative |-> 0]
    IN  IF Contains(<<"positive">>, Lower(content))
            THEN Obj([zero EXCEPT !.positive = 70, !.neutral = 30])
        ELSE IF Contains(<<"negative">>, Lower(content))
            THEN Obj([zero EXCEPT !.negative = 70, !.neutral = 30])
        ELSE Obj([zero EXCEPT !.neutral = 100])

\* the value analyze_sentiment returns for a reply
SentimentData(reply) == IF reply.json THEN reply.doc ELSE SentimentFallback(reply.text)

\* analyze_sentiment as called by process_content
openai_analyze_sentiment ==
    /\ script = "openai" /\ pc = "analyze_sentiment"
    /\ \/ \E reply \in SentimentReplies :
            /\ calls' = Call("analyze_sentiment", FALSE)
            /\ locals' = ("reply" :> reply) @@ Put("sentiment", SentimentData(reply))
            /\ pc' = "overall_quality"
            /\ exc' = exc
       \/ \E e \in ErrMsgs :
            /\ calls' = Call("analyze_sentiment", TRUE)
            /\ exc' = e
            /\ pc' = "main_except"
            /\ UNCHANGED locals
    /\ UNCHANGED <<script, events, out, flushes, exit_status>>

\* sentiment.get(key, 0); only a dict has get
Get(d, key, default) == IF key \in DOMAIN d.fields THEN d.fields[key] ELSE default

\* faulty variant: the two weights exchanged
OverallQuality_Swapped(sentiment) ==
    (Get(sentiment, "positive", 0) * 50 + Get(sentiment, "neutral", 0) * 70) \div 100

\* positive*0.7 + neutral*0.5, in hundredths (the division is exact: every
\* sentiment value is a multiple of 10)
OverallQuality(sentiment) ==
    (Get(sentiment, "positive", 0) * 70 + Get(sentiment, "neutral", 0) * 50) \div 100

\* the rest of process_content, and main's prints of its result
openai_overall_quality ==
    /\ script = "openai" /\ pc = "overall_quality"
    /\ IF locals["sentiment"].type = "object"
         THEN /\ events' = Record(ScoreEvent("overall_quality",
                                             OverallQuality(locals["sentiment"])))
              /\ locals' = Put("result", [keywords |-> locals["keywords"],
                                           summary |-> locals["summary"],
                                           sentiment |-> locals["sentiment"]])
              /\ out' = out \o <<"results", "summary", "keywords", "sentiment", "individual">>
              /\ pc' = "main_analyze_sentiment"
              /\ exc' = exc
         ELSE /\ exc' = "AttributeError"
              /\ pc' = "main_except"
              /\ UNCHANGED <<locals, events, out>>
    /\ UNCHANGED <<script, calls, flushes, exit_status>>

\* main's own analyze_sentiment call and the print of what it returned; the
\* value returned is printed and not used again, whatever the reply was
openai_main_analyze_sentiment ==
    /\ script = "openai" /\ pc = "main_analyze_sentiment"
    /\ \/ /\ SentimentReplies /= {}
          /\ calls' = Call("analyze_sentiment", FALSE)
          /\ out' = Printed("positive_sentiment")
          /\ pc' = "main_finally"
          /\ exc' = exc
       \/ \E e \in ErrMsgs :
            /\ calls' = Call("analyze_sentiment", TRUE)
            /\ exc' = e
            /\ pc' = "main_except"
            /\ out' = out
    /\ UNCHANGED <<script, locals, events, flushes, exit_status>>

\* except Exception as e: print
openai_main_except ==
    /\ script = "openai" /\ pc = "main_except"
    /\ out' = Printed("error")
    /\ exc' = NoExc
    /\ pc' = "main_finally"
    /\ UNCHANGED <<script, locals, calls, events, flushes, exit_status>>

\* finally: flush and print; main returns
openai_main_finally ==
    /\ script = "openai" /\ pc = "main_finally"
    /\ flushes' = flushes + 1
    /\ events' = Record(FlushEvent)
    /\ out' = Printed("all_sent")
    /\ locals' = <<>>
    /\ pc' = "exit"
    /\ UNCHANGED <<script, calls, exc, exit_status>>

\* ========================================================== quickstart
StoryReplies == {<<"story">>}

quickstart_main ==
    /\ script = "quickstart" /\ pc = "start"
    /\ events' = Record(TraceUpdate("user_id,session_id"))
    /\ pc' = "generate_story"
    /\ UNCHANGED <<script, locals, calls, out, exc, flushes, exit_status>>

quickstart_generate_story ==
    /\ script = "quickstart" /\ pc = "generate_story"
    /\ \/ \E content \in StoryReplies :
            /\ calls' = Call("generate_story", FALSE)
            /\ locals' = Put("story", content)
            /\ out' = Printed("story")
            /\ pc' = "generate_summary"
            /\ exc' = exc
       \/ \E e \in ErrMsgs :
            /\ calls' = Call("generate_story", TRUE)
            /\ exc' = e
            /\ pc' = "finally"
            /\ UNCHANGED <<locals, out>>
    /\ UNCHANGED <<script, events, flushes, exit_status>>

quickstart_generate_summary ==
    /\ script = "quickstart" /\ pc = "generate_summary"
    /\ \/ \E content \in SummaryReplies :
            /\ calls' = Call("generate_summary", FALSE)
            /\ locals' = Put("summary", content)
            /\ out' = Printed("summary")
            /\ pc' = "classify_sentiment"
            /\ exc' = exc
       \/ \E e \in ErrMsgs :
            /\ calls' = Call("generate_summary", TRUE)
            /\ exc' = e
            /\ pc' = "finally"
            /\ UNCHANGED <<locals, out>>
    /\ UNCHANGED <<script, events, flushes, exit_status>>

ClassifyReplies == {<<"POSITIVE">>, <<"NEGATIVE">>, <<"NEUTRAL">>}

\* classify_sentiment, then the creativity score, main's return and the
\* print that follows it
quickstart_classify_sentiment ==
    /\ script = "quickstart" /\ pc = "classify_sentiment"
    /\ \/ \E content \in ClassifyReplies :
            /\ calls' = Call("classify_sentiment", FALSE)
            /\ events' = Record(ScoreEvent("creativity", 95))
            /\ locals' = Put("result", [story |-> locals["story"],
                                         summary |-> locals["summary"],
                                         sentiment |-> content])
            /\ out' = out \o <<"sentiment", "completed">>
            /\ pc' = "finally"
            /\ exc' = exc
       \/ \E e \in ErrMsgs :
            /\ calls' = Call("classify_sentiment", TRUE)
            /\ exc' = e
            /\ pc' = "finally"
            /\ UNCHANGED <<locals, events, out>>
    /\ UNCHANGED <<script, flushes, exit_status>>

\* finally: langfuse_context.flush(); an exception in flight goes on to the
\* top level
FlushFinally ==
    /\ pc = "finally"
    /\ flushes' = flushes + 1
    /\ events' = Record(FlushEvent)
    /\ locals' = <<>>
    /\ pc' = "exit"
    /\ UNCHANGED <<script, calls, out, exc, exit_status>>

quickstart_finally == script = "quickstart" /\ FlushFinally

\* =========================================================== anthropic
TokenCounters == {"input_tokens", "output_tokens"}

\* response.usage: an object carrying some of the two counters
ClaudeUsages == UNION {[K -> 0..MaxTokens] : K \in SUBSET TokenCounters}

ClaudeTexts == {<<"text">>}

ClaudeResponses ==
    {[has_usage |-> TRUE, usage |-> u, text |-> t] : u \in ClaudeUsages, t \in ClaudeTexts}
    \cup {[has_usage |-> FALSE, usage |-> <<>>, text |-> t] : t \in ClaudeTexts}

\* getattr(obj, name, default)
GetAttr(obj, name, default) == IF name \in DOMAIN obj THEN obj[name] ELSE default

\* faulty variant: total_tokens takes the input count alone
ForwardedUsage_TotalIsInput(usage) ==
    [prompt_tokens |-> GetAttr(usage, "input_tokens", 0),
     completion_tokens |-> GetAttr(usage, "output_tokens", 0),
     total_tokens |-> GetAttr(usage, "input_tokens", 0)]

\* the usage dict generate_with_claude hands to update_current_observation
ForwardedUsage(usage) ==
    [prompt_tokens |-> GetAttr(usage, "input_tokens", 0),
     completion_tokens |-> GetAttr(usage, "output_tokens", 0),
     total_tokens |-> GetAttr(usage, "input_tokens", 0) + GetAttr(usage, "output_tokens", 0)]

anthropic_main ==
    /\ script = "anthropic" /\ pc = "start"
    /\ events' = Record(TraceUpdate("user_id,session_id,tags"))
    /\ pc' = "research_summary"
    /\ UNCHANGED <<script, locals, calls, out, exc, flushes, exit_status>>

\* generate_with_claude, for either of main's two calls, and the print of
\* what it returned
anthropic_generate_with_claude ==
    /\ script = "anthropic" /\ pc \in {"research_summary", "applications"}
    /\ \/ \E response \in ClaudeResponses :
            /\ calls' = Call("generate_with_claude", FALSE)
            /\ events' = IF response.has_usage
                           THEN Record(ObservationUpdate("usage",
                                                         ForwardedUsage(response.usage)))
                           ELSE events
            /\ locals' = (pc :> response.text) @@ ("response" :> response) @@ locals
            /\ out' = Printed(pc)
            /\ pc' = IF pc = "research_summary" THEN "applications" ELSE "comprehensiveness"
            /\ exc' = exc
       \/ \E e \in ErrMsgs :
            /\ calls' = Call("generate_with_claude", TRUE)
            /\ exc' = e
            /\ pc' = "finally"
            /\ UNCHANGED <<locals, events, out>>
    /\ UNCHANGED <<script, flushes, exit_status>>

\* faulty variant: main flushes before it records the score
anthropic_comprehensiveness_flush_first ==
    /\ script = "anthropic" /\ pc = "comprehensiveness"
    /\ flushes' = flushes + 1
    /\ events' = events \o <<FlushEvent, ScoreEvent("comprehensiveness", 90)>>
    /\ locals' = Put("result", [research_summary |-> locals["research_summary"],
                                 applications |-> locals["applications"]])
    /\ out' = Printed("completed")
    /\ pc' = "finally"
    /\ UNCHANGED <<script, calls, exc, exit_status>>

\* the comprehensiveness score, main's return and the print after it
anthropic_comprehensiveness ==
    /\ script = "anthropic" /\ pc = "comprehensiveness"
    /\ events' = Record(ScoreEvent("comprehensiveness", 90))
    /\ locals' = Put("result", [research_summary |-> locals["research_summary"],
                                 applications |-> locals["applications"]])
    /\ out' = Printed("completed")
    /\ pc' = "finally"
    /\ UNCHANGED <<script, calls, exc, flushes, exit_status>>

anthropic_finally == script = "anthropic" /\ FlushFinally

\* ============================================================= bedrock
BedrockWords == {"Error", "error", "fine"}

BedrockTexts == Strings(BedrockWords, MaxBedrockLen)

\* faulty variant: the message alone, without the "Error: " prefix
ErrorString_Bare(e) == <<e>>

\* f"Error: {str(e)}"
ErrorString(e) == <<"Error", ":", " ", e>>

bedrock_main ==
    /\ script = "bedrock" /\ pc = "start"
    /\ events' = Record(TraceUpdate("user_id,session_id,tags"))
    /\ pc' = "claude"
    /\ UNCHANGED <<script, locals, calls, out, exc, flushes, exit_status>>

\* the first try block of main: generate_with_bedrock_claude and its except
bedrock_claude ==
    /\ script = "bedrock" /\ pc = "claude"
    /\ \/ \E text \in BedrockTexts :
            /\ calls' = Call("generate_with_bedrock_claude", FALSE)
            /\ events' = events \o <<ObservationUpdate("model", "claude"),
                                     ObservationUpdate("metadata", "anthropic")>>
            /\ locals' = Put("claude_response", text)
            /\ out' = Printed("claude_response")
       \/ \E e \in ErrMsgs :
            /\ calls' = Call("generate_with_bedrock_claude", TRUE)
            /\ locals' = Put("claude_response", ErrorString(e))
            /\ out' = Printed("error_claude")
            /\ events' = events
    /\ pc' = "titan"
    /\ UNCHANGED <<script, exc, flushes, exit_status>>

\* the second try block of main: generate_with_bedrock_titan and its except
bedrock_titan ==
    /\ script = "bedrock" /\ pc = "titan"
    /\ \/ \E text \in BedrockTexts :
            /\ calls' = Call("generate_with_bedrock_titan", FALSE)
            /\ events' = events \o <<ObservationUpdate("model", "titan"),
                                     ObservationUpdate("metadata", "amazon")>>
            /\ locals' = Put("titan_response", text)
            /\ out' = Printed("titan_response")
       \/ \E e \in ErrMsgs :
            /\ calls' = Call("generate_with_bedrock_titan", TRUE)
            /\ locals' = Put("titan_response", ErrorString(e))
            /\ out' = Printed("error_titan")
            /\ events' = events
    /\ pc' = "clarity"
    /\ UNCHANGED <<script, exc, flushes, exit_status>>

\* the scores main records for the two responses
ClarityScores(claude_response, titan_response) ==
    (IF ~Contains(<<"Error">>, claude_response)
        THEN <<[kind |-> "score", name |-> "clarity", value |-> 85]>> ELSE <<>>)
    \o (IF ~Contains(<<"Error">>, titan_response)
        THEN <<[kind |-> "score", name |-> "clarity", value |-> 80]>> ELSE <<>>)

\* the scoring, main's return and the print after it
bedrock_clarity ==
    /\ script = "bedrock" /\ pc = "clarity"
    /\ events' = events \o ClarityScores(locals["claude_response"], locals["titan_response"])
    /\ locals' = Put("result", [claude_response |-> locals["claude_response"],
                                 titan_response |-> locals["titan_response"]])
    /\ out' = Printed("completed")
    /\ pc' = "finally"
    /\ UNCHANGED <<script, calls, exc, flushes, exit_status>>

bedrock_finally == script = "bedrock" /\ FlushFinally

\* =========================================================== langchain
\* if current_trace and user_id: current_trace.update_metadata(user_id=...)
UserIdUpdate(has_trace, user_id) ==
    IF has_trace /\ user_id THEN <<[kind |-> "update_metadata", name |-> "user_id",
                                    value |-> 0]>>
    ELSE <<>>

ChainTexts == {<<"text">>}

\* main's call of summarize_text and the print of its result
langchain_summarize_text ==
    /\ script = "langchain" /\ pc = "start"
    /\ \E has_trace \in BOOLEAN :
        /\ events' = events \o UserIdUpdate(has_trace, TRUE)
        /\ \/ \E text \in ChainTexts :
                /\ calls' = Call("summarize_text", FALSE)
                /\ locals' = Put("summary_result", text)
                /\ out' = Printed("summarized")
                /\ pc' = "answer_question"
                /\ exc' = exc
           \/ \E e \in ErrMsgs :
                /\ calls' = Call("summarize_text", TRUE)
                /\ exc' = e
                /\ pc' = "exit"
                /\ UNCHANGED <<locals, out>>
    /\ UNCHANGED <<script, flushes, exit_status>>

AnswerWords ==
    {"I don't", "i don't", "know", "I'm not", "sure", "might", "be", "possibly"}

AnswerTexts == Strings(AnswerWords, MaxTextLen)

IDontKnow == <<"I don't", "know">>

ImNotSure == <<"I'm not", "sure">>

MightBe == <<"might", "be">>

Possibly == <<"possibly">>

\* faulty variant: the two tests in the other order
Confidence_HedgeFirst(text) ==
    IF Contains(MightBe, text) \/ Contains(Possibly, text) THEN 70
    ELSE IF Contains(IDontKnow, text) \/ Contains(ImNotSure, text) THEN 30
    ELSE 90

\* faulty variant: "I don't know" matched without regard to letter case
Confidence_AnyCase(text) ==
    IF Contains(IDontKnow, text) \/ Contains(<<"i don't", "know">>, text)
        \/ Contains(ImNotSure, text) THEN 30
    ELSE IF Contains(MightBe, text) \/ Contains(Possibly, text) THEN 70
    ELSE 90

\* the confidence answer_question derives from the answer's text
Confidence(text) ==
    IF Contains(IDontKnow, text) \/ Contains(ImNotSure, text) THEN 30
    ELSE IF Contains(MightBe, text) \/ Contains(Possibly, text) THEN 70
    ELSE 90

\* main's call of answer_question and the print of its result
langchain_answer_question ==
    /\ script = "langchain" /\ pc = "answer_question"
    /\ \E has_trace \in BOOLEAN :
        \/ \E text \in AnswerTexts :
                /\ calls' = Call("answer_question", FALSE)
                /\ events' = events \o UserIdUpdate(has_trace, TRUE)
                                \o (IF has_trace
                                      THEN <<ScoreEvent("answer_confidence", Confidence(text))>>
                                      ELSE <<>>)
                /\ locals' = ("confidence" :> Confidence(text)) @@ Put("qa_result", text)
                /\ out' = Printed("answer")
                /\ pc' = "process_document"
                /\ exc' = exc
        \/ \E e \in ErrMsgs :
                /\ calls' = Call("answer_question", TRUE)
                /\ events' = events \o UserIdUpdate(has_trace, TRUE)
                /\ exc' = e
                /\ pc' = "exit"
                /\ UNCHANGED <<locals, out>>
    /\ UNCHANGED <<script, flushes, exit_status>>

\* process_document up to the return of its summarize_text call
langchain_process_document ==
    /\ script = "langchain" /\ pc = "process_document"
    /\ \E has_trace \in BOOLEAN :
        /\ events' = events \o UserIdUpdate(has_trace, TRUE) \o UserIdUpdate(has_trace, FALSE)
        /\ \/ \E text \in ChainTexts :
                /\ calls' = Call("summarize_text", FALSE)
                /\ locals' = Put("summary", text)
                /\ pc' = "extraction"
                /\ exc' = exc
           \/ \E e \in ErrMsgs :
                /\ calls' = Call("summarize_text", TRUE)
                /\ exc' = e
                /\ pc' = "exit"
                /\ UNCHANGED locals
    /\ UNCHANGED <<script, out, flushes, exit_status>>

\* the extraction chain, the document_extraction observation, the return of
\* process_document and main's prints of its result
langchain_extraction ==
    /\ script = "langchain" /\ pc = "extraction"
    /\ \/ \E text \in ChainTexts, has_trace \in BOOLEAN :
            /\ calls' = Call("extraction_chain", FALSE)
            /\ events' = IF has_trace
                           THEN Record([kind |-> "observation",
                                        name |-> "document_extraction", value |-> text])
                           ELSE events
            /\ locals' = Put("processing_result", [summary |-> locals["summary"],
                                                    extracted_info |-> text])
            /\ out' = out \o <<"document_summary", "extracted_information">>
            /\ pc' = "flush"
            /\ exc' = exc
       \/ \E e \in ErrMsgs :
            /\ calls' = Call("extraction_chain", TRUE)
            /\ exc' = e
            /\ pc' = "exit"
            /\ UNCHANGED <<locals, events, out>>
    /\ UNCHANGED <<script, flushes, exit_status>>

\* langfuse.flush(), the last print, and main returns
langchain_flush ==
    /\ script = "langchain" /\ pc = "flush"
    /\ flushes' = flushes + 1
    /\ events' = Record(FlushEvent)
    /\ out' = Printed("all_completed")
    /\ locals' = <<>>
    /\ pc' = "exit"
    /\ UNCHANGED <<script, calls, exc, exit_status>>

\* ======================================================== process exit
\* The interpreter exits 0, or 1 when an exception reached the top level.
Exit ==
    /\ pc = "exit"
    /\ exit_status' = IF exc = NoExc THEN 0 ELSE 1
    /\ pc' = "exited"
    /\ UNCHANGED <<script, locals, calls, events, out, exc, flushes>>

Next ==
    \/ quickstart_main
    \/ quickstart_generate_story
    \/ quickstart_generate_summary
    \/ quickstart_classify_sentiment
    \/ quickstart_finally
    \/ anthropic_main
    \/ anthropic_generate_with_claude
    \/ anthropic_comprehensiveness
    \/ anthropic_finally
    \/ bedrock_main
    \/ bedrock_claude
    \/ bedrock_titan
    \/ bedrock_clarity
    \/ bedrock_finally
    \/ langchain_summarize_text
    \/ langchain_answer_question
    \/ langchain_process_document
    \/ langchain_extraction
    \/ langchain_flush
    \/ openai_process_content
    \/ openai_extract_keywords
    \/ openai_generate_summary
    \/ openai_analyze_sentiment
    \/ openai_overall_quality
    \/ openai_main_analyze_sentiment
    \/ openai_main_except
    \/ openai_main_finally
    \/ Exit

Spec == Init /\ [][Next]_vars

\* ============================================================== claims
Raised(i) == i \in DOMAIN calls /\ calls[i].raised

SomeCallRaised == \E i \in DOMAIN calls : calls[i].raised

ScoresNamed(n) == {i \in DOMAIN events : events[i].kind = "score" /\ events[i].name = n}

\* C1: in every script, when the process has exited the flush was invoked
\* exactly once, whether or not a provider call raised.
C1_FlushExactlyOnce == pc = "exited" => flushes = 1

\* C2: a run in which no call raises exits 0; a run that ends with an
\* unhandled exception exits non-zero and has flushed before exiting.
C2_ExitStatus ==
    pc = "exited" =>
        /\ (~SomeCallRaised /\ exc = NoExc) => exit_status = 0
        /\ exc /= NoExc => (exit_status /= 0 /\ flushes >= 1)

\* C3 as stated: in every script a provider call that raised left no
\* exception in flight (it was caught where it was made) and the run went on.
C3_EveryProviderErrorCaught == SomeCallRaised => exc = NoExc

IsErrorString(s) == \E e \in ErrMsgs : s = <<"Error", ":", " ", e>>

\* C3 amended: in the bedrock script a provider call that raises is caught,
\* its result is the string "Error: <message>", each of the two calls is
\* issued exactly once (Titan also after Claude failed) and main returns both
\* values; in the other scripts no provider call follows one that raised.
C3_BedrockErrorsCaught ==
    /\ script = "bedrock" =>
        /\ exc = NoExc
        /\ pc \in {"titan", "clarity", "finally"} =>
            /\ calls[1].fn = "generate_with_bedrock_claude"
            /\ Raised(1) => IsErrorString(locals["claude_response"])
        /\ pc \in {"clarity", "finally"} =>
            /\ Len(calls) = 2
            /\ calls[2].fn = "generate_with_bedrock_titan"
            /\ Raised(2) => IsErrorString(locals["titan_response"])
        /\ pc = "finally" =>
            /\ locals["result"].claude_response = locals["claude_response"]
            /\ locals["result"].titan_response = locals["titan_response"]
        /\ pc = "exited" => (Len(calls) = 2 /\ exit_status = 0)
    /\ script /= "bedrock" => \A i \in DOMAIN calls : calls[i].raised => i = Len(calls)

C3_Witness ==
    /\ script = "bedrock" /\ pc = "finally"
    /\ Raised(1) /\ ~Raised(2)
    /\ IsErrorString(locals["result"].claude_response)
    /\ ~IsErrorString(locals["result"].titan_response)

Answered == script = "langchain" /\ Has("qa_result")

Unsure(text) == Contains(<<"I don't", "know">>, text) \/ Contains(<<"I'm not", "sure">>, text)

Hedged(text) == Contains(<<"might", "be">>, text) \/ Contains(<<"possibly">>, text)

ConfidenceScored(v) ==
    /\ locals["confidence"] = v
    /\ \A i \in ScoresNamed("answer_confidence") : events[i].value = v

\* C4: an answer whose text contains "I don't know" or "I'm not sure" gets
\* confidence 0.3, also when it contains "might be" or "possibly" as well.
C4_UnsureConfidence == (Answered /\ Unsure(locals["qa_result"])) => ConfidenceScored(30)

C4_Witness ==
    /\ Answered
    /\ Unsure(locals["qa_result"]) /\ Hedged(locals["qa_result"])
    /\ ScoresNamed("answer_confidence") /= {}
    /\ ConfidenceScored(30)

\* C5: an answer containing neither "I don't know" nor "I'm not sure" gets
\* confidence 0.7 if it contains "might be" or "possibly" and 0.9 otherwise;
\* the confidence is always one of 0.3, 0.7, 0.9.
C5_HedgedConfidence ==
    Answered =>
        /\ (~Unsure(locals["qa_result"]) /\ Hedged(locals["qa_result"])) => ConfidenceScored(70)
        /\ (~Unsure(locals["qa_result"]) /\ ~Hedged(locals["qa_result"])) => ConfidenceScored(90)
        /\ locals["confidence"] \in {30, 70, 90}

C5_Witness ==
    /\ Answered
    /\ locals["qa_result"] = <<"i don't", "know">>
    /\ ScoresNamed("answer_confidence") /= {}
    /\ ConfidenceScored(90)

Dist(p, n, g) == [type |-> "object", fields |-> [positive |-> p, neutral |-> n, negative |-> g]]

Unparsed == script = "openai" /\ Has("reply") /\ ~locals["reply"].json

\* C6 as stated: the fallback looks for "positive" and "negative" in the
\* reply as written.
C6_FallbackAsWritten ==
    Unparsed =>
        locals["sentiment"] =
            IF Contains(<<"positive">>, locals["reply"].text) THEN Dist(70, 30, 0)
            ELSE IF Contains(<<"negative">>, locals["reply"].text) THEN Dist(0, 30, 70)
            ELSE Dist(0, 100, 0)

HasWord(text, forms) == \E i \in DOMAIN text : text[i] \in forms

\* C6 amended: the fallback looks for "positive", then for "negative", in
\* the reply without regard to letter case; the three values sum to 1.0.
C6_FallbackAnyCase ==
    Unparsed =>
        /\ locals["sentiment"] =
            IF HasWord(locals["reply"].text, {"positive", "Positive", "POSITIVE"})
                THEN Dist(70, 30, 0)
            ELSE IF HasWord(locals["reply"].text, {"negative", "Negative", "NEGATIVE"})
                THEN Dist(0, 30, 70)
            ELSE Dist(0, 100, 0)
        /\ locals["sentiment"].fields["positive"] + locals["sentiment"].fields["neutral"]
            + locals["sentiment"].fields["negative"] = 100

C6_Witness ==
    /\ Unparsed
    /\ locals["reply"].text = <<"NEGATIVE", "Positive">>
    /\ locals["sentiment"] = Dist(70, 30, 0)

Field(d, k) == IF k \in DOMAIN d.fields THEN d.fields[k] ELSE 0

\* C7: the overall_quality score is positive*0.7 + neutral*0.5 of the
\* sentiment in the result; negative plays no part and a missing key is 0.
C7_OverallQuality ==
    (script = "openai" /\ Has("result")) =>
        /\ Cardinality(ScoresNamed("overall_quality")) = 1
        /\ \A i \in ScoresNamed("overall_quality") :
            events[i].value * 100 =
                Field(locals["result"].sentiment, "positive") * 70
                + Field(locals["result"].sentiment, "neutral") * 50

C7_Witness ==
    /\ script = "openai" /\ Has("result")
    /\ DOMAIN locals["result"].sentiment.fields = {"neutral", "negative"}
    /\ locals["result"].sentiment.fields["negative"] = 70
    /\ locals["result"].sentiment.fields["neutral"] = 30
    /\ \E i \in ScoresNamed("overall_quality") : events[i].value = 15

\* C8: when the sentiment reply is not JSON, analyze_sentiment returns a
\* fallback distribution with nothing raised, and process_content records
\* overall_quality and returns its result.
C8_ParseFailureNotFatal ==
    Unparsed =>
        /\ locals["sentiment"] \in {Dist(70, 30, 0), Dist(0, 30, 70), Dist(0, 100, 0)}
        /\ pc = "overall_quality" => exc = NoExc
        /\ pc /= "overall_quality" =>
            /\ Has("result")
            /\ locals["result"].sentiment = locals["sentiment"]
            /\ Cardinality(ScoresNamed("overall_quality")) = 1

C8_Witness ==
    /\ Unparsed
    /\ pc = "main_analyze_sentiment"
    /\ locals["result"].sentiment = Dist(0, 100, 0)
    /\ \E i \in ScoresNamed("overall_quality") : events[i].value = 50

WorkflowOrder == <<"extract_keywords", "generate_summary", "analyze_sentiment",
                   "analyze_sentiment">>

\* C9: in the openai script the provider calls come in the order
\* extract_keywords, generate_summary, analyze_sentiment; after one of them
\* raises no further provider call is issued, no overall_quality score is
\* recorded, and main prints the error, flushes once and returns normally.
C9_WorkflowAbortsCleanly ==
    script = "openai" =>
        /\ Len(calls) <= 4
        /\ \A i \in DOMAIN calls : calls[i].fn = WorkflowOrder[i]
        /\ \A i \in DOMAIN calls : calls[i].raised => i = Len(calls)
        /\ (\E i \in 1..3 : Raised(i)) => ScoresNamed("overall_quality") = {}
        /\ (SomeCallRaised /\ pc = "exited") =>
            /\ Contains(<<"error", "all_sent">>, out)
            /\ flushes = 1
            /\ exit_status = 0

C9_Witness ==
    /\ script = "openai" /\ pc = "exited"
    /\ Len(calls) = 2 /\ Raised(2)
    /\ out = <<"error", "all_sent">>

\* C10: each generate_with_claude call that returns forwards a usage with
\* prompt_tokens the input count, completion_tokens the output count (0 for
\* an absent counter) and total_tokens their sum; without a usage field it
\* forwards nothing; the text is returned either way.
C10_UsageForwarded ==
    [][(script = "anthropic" /\ calls' /= calls /\ ~calls'[Len(calls')].raised) =>
        LET response == locals'["response"]
            input == IF "input_tokens" \in DOMAIN response.usage
                       THEN response.usage["input_tokens"] ELSE 0
            output == IF "output_tokens" \in DOMAIN response.usage
                        THEN response.usage["output_tokens"] ELSE 0
        IN  /\ locals'[pc] = response.text
            /\ IF response.has_usage
                 THEN events' = Append(events,
                        [kind |-> "update_observation", name |-> "usage",
                         value |-> [prompt_tokens |-> input, completion_tokens |-> output,
                                    total_tokens |-> input + output]])
                 ELSE events' = events]_vars

\* the first call's response had no usage field (nothing was forwarded for
\* it), the second carried an output count only
C10_Witness ==
    /\ script = "anthropic" /\ pc = "comprehensiveness"
    /\ Len(calls) = 2 /\ ~Raised(1) /\ ~Raised(2)
    /\ Has("research_summary") /\ Has("applications")
    /\ locals["response"].has_usage
    /\ DOMAIN locals["response"].usage = {"output_tokens"}
    /\ Len(events) = 2
    /\ events[2] = [kind |-> "update_observation", name |-> "usage",
                    value |-> [prompt_tokens |-> 0, completion_tokens |-> 1,
                               total_tokens |-> 1]]

\* C11: in every script the flush is the last interaction with the tracing
\* collaborator: the flush step hands it the flush and nothing else, and once
\* flush was invoked no trace event is produced and no provider call is made.
C11_FlushIsLast ==
    [][/\ flushes' /= flushes =>
            /\ flushes' = flushes + 1
            /\ events' = Append(events, [kind |-> "flush", name |-> "flush", value |-> 0])
            /\ calls' = calls
       /\ flushes >= 1 => (events' = events /\ calls' = calls)]_vars

C11_Witness ==
    /\ script = "bedrock" /\ pc = "exited"
    /\ flushes = 1
    /\ Raised(1) /\ ~Raised(2)
    /\ ScoresNamed("clarity") /= {}
    /\ events[Len(events)].kind = "flush"
    /\ \A i \in 1..(Len(events) - 1) : events[i].kind /= "flush"

ClarityRecorded(v) == \E i \in ScoresNamed("clarity") : events[i].value = v

\* C12: once bedrock main has scored, a clarity score of 0.85 is on record
\* exactly when the Claude call returned, and one of 0.80 exactly when the
\* Titan call returned, whatever the two response texts were.
C12_ClarityIffReturned ==
    (script = "bedrock" /\ pc \in {"finally", "exit", "exited"}) =>
        /\ ClarityRecorded(85) <=> ~Raised(1)
        /\ ClarityRecorded(80) <=> ~Raised(2)

WorkflowCallsReturned ==
    /\ script = "openai"
    /\ Len(calls) >= 3
    /\ \A i \in 1..3 : ~calls[i].raised

\* C13: when the three provider calls of process_content have returned,
\* process_content records exactly one overall_quality score and returns a
\* result holding keywords, summary and sentiment, whatever the sentiment
\* reply was (JSON of any shape, or not JSON).
C13_WorkflowAlwaysScored ==
    (WorkflowCallsReturned /\ pc /= "overall_quality") =>
        /\ Cardinality(ScoresNamed("overall_quality")) = 1
        /\ pc = "main_analyze_sentiment" =>
            /\ Has("result")
            /\ locals["result"].keywords = locals["keywords"]
            /\ locals["result"].summary = locals["summary"]
            /\ locals["result"].sentiment = locals["sentiment"]

NotNewline(c) == {i \in DOMAIN c : c[i] /= "\n"}

Min(S) == CHOOSE x \in S : \A y \in S : x <= y

Max(S) == CHOOSE x \in S : \A y \in S : x >= y

\* the number of lines of a reply, blank lines at either end not counted
Lines(c) ==
    IF NotNewline(c) = {} THEN 1
    ELSE 1 + Cardinality({i \in Min(NotNewline(c))..Max(NotNewline(c)) : c[i] = "\n"})

\* C14: a call of extract_keywords whose provider call returns records
\* exactly one keyword_quality score, 0.9 if the reply has at least 5 lines
\* and 0.5 otherwise; one whose provider call raises records none and hands
\* the provider's exception on to its caller.
C14_KeywordQuality ==
    (script = "openai" /\ Len(calls) >= 1) =>
        /\ ~Raised(1) => Cardinality(ScoresNamed("keyword_quality")) = 1
        /\ (~Raised(1) /\ pc = "generate_summary") =>
            /\ Len(locals["keywords"]) = Lines(locals["response"])
            /\ \A i \in ScoresNamed("keyword_quality") :
                events[i].value = IF Lines(locals["response"]) >= 5 THEN 90 ELSE 50
        /\ Raised(1) =>
            /\ ScoresNamed("keyword_quality") = {}
            /\ Len(calls) = 1
            /\ pc = "main_except" => exc \in {"timeout", "denied"}

C14_Witness ==
    /\ script = "openai" /\ pc = "generate_summary"
    /\ locals["response"] = <<"kw", "\n", "\n", "\n", "\n", "kw">>
    /\ \E i \in ScoresNamed("keyword_quality") : events[i].value = 90

====
